---- MODULE Spec2Model ----
(***************************************************************************)
(* A model of gorm-bulk (src/gorm_bulk.go, lines 1-241, and the ExecFuncs  *)
(* of src/unnamed/part_000, lines 1-85): the assembly of one multi-row     *)
(* INSERT statement from a slice of row objects.                           *)
(*                                                                         *)
(* Strings whose order or spelling matters (column names, tag values, SQL  *)
(* text) are sequences of one-character strings, compared byte by byte     *)
(* through Code.  Times are integers, 0 being the zero time.Time.          *)
(*                                                                         *)
(* Modelling assumptions, all about the wrapped gorm library, which is not *)
(* part of the repository:                                                 *)
(*  - the fields of one struct have distinct DBNames;                      *)
(*  - Scope.AddToVars appends exactly one bind variable per value (no      *)
(*    value is a SQL expression);                                          *)
(*  - column names are lower case, so ToColumnName only lowers letters;    *)
(*  - StructField.HasDefaultValue is set for a DEFAULT or AUTO_INCREMENT   *)
(*    tag on a field that is not a primary key, as the comment at          *)
(*    src/gorm_bulk.go:205-209 describes.                                  *)
(***************************************************************************)
EXTENDS Integers, Sequences, FiniteSets, TLC

\* ------------------------------------------------------------------ bounds

\* The largest instant gorm.NowFunc() returns in a run.
MaxClock == 3

\* The largest number of rows in one batch of catalogue rows.
MaxRows == 2

\* The largest number of rows handed to BulkExecChunk, and the largest chunk
\* size.
MaxChunkRows == 7

MaxChunkSize == 3

\* BulkExecChunk loops for ever on some inputs; the model follows the loop
\* for this many iterations, more than any terminating run needs.
MaxIterations == MaxChunkRows + 2

\* ----------------------------------------------------------------- strings

Digits == <<"0", "1", "2", "3", "4", "5", "6", "7", "8", "9">>

Upper ==
  <<"A", "B", "C", "D", "E", "F", "G", "H", "I", "J", "K", "L", "M",
    "N", "O", "P", "Q", "R", "S", "T", "U", "V", "W", "X", "Y", "Z">>

Lower ==
  <<"a", "b", "c", "d", "e", "f", "g", "h", "i", "j", "k", "l", "m",
    "n", "o", "p", "q", "r", "s", "t", "u", "v", "w", "x", "y", "z">>

IndexIn(c, alphabet) ==
  IF \E i \in 1..Len(alphabet) : alphabet[i] = c
  THEN CHOOSE i \in 1..Len(alphabet) : alphabet[i] = c
  ELSE 0

\* The backtick character (byte 96), which a TLA+ string cannot hold.
Backtick == "BACKTICK"

Punctuation == <<" ", "(", ")", ",", "=", "?", "_", Backtick>>

PunctuationCodes == <<32, 40, 41, 44, 61, 63, 95, 96>>

Characters ==
  {Punctuation[i] : i \in 1..Len(Punctuation)} \cup {Digits[i] : i \in 1..Len(Digits)}
    \cup {Upper[i] : i \in 1..Len(Upper)} \cup {Lower[i] : i \in 1..Len(Lower)}

\* The byte value of every character the model uses.
CodeTable ==
  [c \in Characters |->
     IF IndexIn(c, Punctuation) > 0 THEN PunctuationCodes[IndexIn(c, Punctuation)]
     ELSE IF IndexIn(c, Digits) > 0 THEN 47 + IndexIn(c, Digits)
     ELSE IF IndexIn(c, Upper) > 0 THEN 64 + IndexIn(c, Upper)
     ELSE 96 + IndexIn(c, Lower)]

Code(c) == CodeTable[c]

\* Go's < on strings: byte-wise lexicographic order.
StringLess(a, b) ==
  \E k \in 1..(Len(b)) :
    /\ k <= Len(a) + 1
    /\ \A j \in 1..(k - 1) : a[j] = b[j]
    /\ \/ k = Len(a) + 1
       \/ Code(a[k]) < Code(b[k])

\* The lower-case form of every character.
LowerTable ==
  [c \in Characters |->
     IF IndexIn(c, Upper) > 0 THEN Lower[IndexIn(c, Upper)] ELSE c]

ToLowerChar(c) == LowerTable[c]

ToLower(s) == [i \in 1..Len(s) |-> ToLowerChar(s[i])]

\* strings.EqualFold, on ASCII.
EqualFold(a, b) == ToLower(a) = ToLower(b)

\* strings.Join.
RECURSIVE Join(_, _)
Join(elems, sep) ==
  IF Len(elems) = 0 THEN << >>
  ELSE IF Len(elems) = 1 THEN elems[1]
  ELSE elems[1] \o sep \o Join(Tail(elems), sep)

\* One step of insertion into a sorted sequence.
RECURSIVE InsertSorted(_, _)
InsertSorted(sorted, s) ==
  IF Len(sorted) = 0 THEN <<s>>
  ELSE IF StringLess(s, sorted[1]) THEN <<s>> \o sorted
  ELSE <<sorted[1]>> \o InsertSorted(Tail(sorted), s)

\* sort.Strings: ascending byte-wise order.
RECURSIVE SortStrings(_)
SortStrings(strs) ==
  IF Len(strs) = 0 THEN << >>
  ELSE InsertSorted(SortStrings(Tail(strs)), strs[1])

\* Every order in which a Go map range may visit the keys.
RECURSIVE IterationOrders(_)
IterationOrders(keys) ==
  IF keys = {} THEN {<< >>}
  ELSE UNION {{<<k>> \o rest : rest \in IterationOrders(keys \ {k})} : k \in keys}

\* -------------------------------------------------- names used by the rows
Str_id == <<"i", "d">>
Str_created_at == <<"c", "r", "e", "a", "t", "e", "d", "_", "a", "t">>
Str_updated_at == <<"u", "p", "d", "a", "t", "e", "d", "_", "a", "t">>
Str_code == <<"c", "o", "d", "e">>
Str_foo == <<"f", "o", "o">>
Str_bar == <<"b", "a", "r">>
Str_aaa == <<"a", "a", "a">>
Str_xxx == <<"x", "x", "x">>
Str_time == <<"t", "i", "m", "e">>
Str_time_from == <<"t", "i", "m", "e", "_", "f", "r", "o", "m">>
Str_n100_a == <<"1", "0", "0", "_", "a">>
Str_n100_aa == <<"1", "0", "0", "_", "a", "a">>
Str_tests == <<"t", "e", "s", "t", "s">>
Str_models == <<"m", "o", "d", "e", "l", "s">>
Str_orders == <<"o", "r", "d", "e", "r", "s">>

\* Values of the AUTO_INCREMENT tag: gorm stores the tag's name for a tag
\* written without a value.
Str_false == <<"f", "a", "l", "s", "e">>
Str_FALSE == <<"F", "A", "L", "S", "E">>
Str_true == <<"t", "r", "u", "e">>
Str_AUTO_INCREMENT == <<"A", "U", "T", "O", "_", "I", "N", "C", "R", "E", "M", "E", "N", "T">>

\* ------------------------------------------------------------------ values

\* A bind value: an ordinary value, a time.Time, or Go's nil.
Val(n) == <<"val", n>>

TimeVal(t) == <<"time", t>>

NilVal == <<"nil", 0>>

\* time.Time.IsZero.
IsZero(t) == t = 0

\* The explicit timestamp the fixtures give a row (time.Date(1985, ...)).
pastDate == 1

\* ------------------------------------------------------- field descriptors

\* field.TagSettingsGet(key): the tag's value and whether the tag is set.
NoTag == [ok |-> FALSE, value |-> << >>]

Tag(v) == [ok |-> TRUE, value |-> v]

\* A *gorm.Field as ObjectToMap reads it: Struct.Name, DBName, the tags
\* FOREIGNKEY, DEFAULT and AUTO_INCREMENT, StructField.Relationship != nil,
\* IsIgnored, IsPrimaryKey, IsBlank and Field.Interface().
GormField(name, db, fk, rel, ign, def, pk, ai, blank, value) ==
  [Name |-> name, DBName |-> db, FOREIGNKEY |-> fk, Relationship |-> rel,
   IsIgnored |-> ign, DEFAULT |-> def, IsPrimaryKey |-> pk,
   AUTO_INCREMENT |-> ai, IsBlank |-> blank, Value |-> value]

\* A column with no tag at all.
PlainField(name, db, blank, value) ==
  GormField(name, db, FALSE, FALSE, FALSE, FALSE, FALSE, NoTag, blank, value)

\* field.StructField.HasDefaultValue: gorm sets it for a DEFAULT or an
\* AUTO_INCREMENT tag, on fields that are not primary keys.
HasDefaultValue(field) ==
  /\ field.DEFAULT \/ field.AUTO_INCREMENT.ok
  /\ ~field.IsPrimaryKey

\* ----------------------------------------------------------------- objects

\* An element of the []interface{} handed in: ptrs pointer levels around a
\* base that is a struct, a string, an int or nil (at ptrs = 0 the untyped
\* nil interface, at ptrs = 1 a nil pointer, at ptrs = 2 a pointer to a nil
\* pointer).
Object(ptrs, base, table, fields) ==
  [ptrs |-> ptrs, base |-> base, table |-> table, fields |-> fields]

Struct(table, fields) == Object(0, "struct", table, fields)

PtrTo(object) == [object EXCEPT !.ptrs = @ + 1]

\* reflect.Value.Kind.
Kind(rv) ==
  IF rv.ptrs > 0 THEN "Ptr"
  ELSE CASE rv.base = "struct" -> "Struct"
         [] rv.base = "string" -> "String"
         [] rv.base = "int" -> "Int"
         [] rv.base = "nil" -> "Invalid"

\* A plausible slip: the pointer is not followed.
ElemKeepsPointer(rv) == rv

\* reflect.Value.Elem of a pointer: the zero Value for a nil pointer.
Elem(rv) == [rv EXCEPT !.ptrs = @ - 1]

\* reflect.Value.Interface panics on the zero Value.
InterfacePanics(rv) == Kind(rv) = "Invalid"

\* --------------------------------------------------------------- the rules

\* src/gorm_bulk.go:192-195.
SkipForeignKey(field) == field.FOREIGNKEY

\* src/gorm_bulk.go:197-199.
SkipRelationship(field) == field.Relationship

\* src/gorm_bulk.go:201-203.
SkipIgnored(field) == field.IsIgnored

\* src/gorm_bulk.go:210-214.
SkipBlankWithDefault(field) ==
  /\ HasDefaultValue(field) /\ field.IsBlank
  /\ field.DEFAULT

SkipAnyBlankPrimaryKey(field) == field.IsPrimaryKey /\ field.IsBlank

\* src/gorm_bulk.go:218-220.
SkipBlankIDPrimaryKey(field) ==
  field.DBName = Str_id /\ field.IsPrimaryKey /\ field.IsBlank

SkipAutoIncrementExact(field) ==
  field.AUTO_INCREMENT.ok /\ field.AUTO_INCREMENT.value # Str_false

\* src/gorm_bulk.go:224-228.
SkipAutoIncrement(field) ==
  /\ field.AUTO_INCREMENT.ok
  /\ ~EqualFold(field.AUTO_INCREMENT.value, Str_false)

IsTimestampField(field) == field.Name = "CreatedAt" \/ field.Name = "UpdatedAt"

AlwaysNow(field, now) ==
  IF IsTimestampField(field) THEN TimeVal(now) ELSE field.Value

\* src/gorm_bulk.go:230-237: the value stored for a field that is kept.
AttributeValue(field, now) ==
  IF IsTimestampField(field) /\ field.IsBlank THEN TimeVal(now) ELSE field.Value

\* attributes[k] = v on a Go map.
MapSet(attributes, k, v) ==
  [x \in (DOMAIN attributes) \cup {k} |-> IF x = k THEN v ELSE attributes[x]]

\* row[key] on a Go map of interface{}: nil for a missing key.
MapGet(row, key) == IF key \in DOMAIN row THEN row[key] ELSE NilVal

EmptyMap == [x \in {} |-> NilVal]

\* src/gorm_bulk.go:190-238: the loop over the fields.
RECURSIVE FieldLoop(_, _, _)
FieldLoop(fields, now, attributes) ==
  IF Len(fields) = 0 THEN attributes
  ELSE
    LET field == fields[1]
        skip == \/ SkipForeignKey(field)
                \/ SkipRelationship(field)
                \/ SkipIgnored(field)
                \/ SkipBlankWithDefault(field)
                \/ SkipBlankIDPrimaryKey(field)
                \/ SkipAutoIncrement(field)
    IN FieldLoop(Tail(fields), now,
                 IF skip THEN attributes
                 ELSE MapSet(attributes, field.DBName, AttributeValue(field, now)))

NeedsNowFuncAlways(bulkNowRead) == TRUE

\* src/gorm_bulk.go:186: gorm.NowFunc() is called when the value read from
\* bulkNow is the zero time.
NeedsNowFunc(bulkNowRead) == IsZero(bulkNowRead)

\* src/gorm_bulk.go:172 and 186-188: now is bulkNow, or gorm.NowFunc() when
\* bulkNow is the zero time.
ResolveNow(bulkNowRead, nowFunc) ==
  IF NeedsNowFunc(bulkNowRead) THEN nowFunc ELSE bulkNowRead

ErrNotStruct == "value must be kind of Struct"

\* src/gorm_bulk.go:169-241.  bulkNowRead is the value of the global at line
\* 172, nowFunc what gorm.NowFunc() returns if line 187 calls it.  The result
\* tells whether the call panicked (reflect's Interface on the zero Value of
\* a nil pointer, line 179), its error, its map, whether line 187 called
\* gorm.NowFunc(), and the instant the blank timestamps were given.
ObjectToMap(object, bulkNowRead, nowFunc) ==
  LET rv == IF Kind(object) = "Ptr" THEN Elem(object) ELSE object
      now == ResolveNow(bulkNowRead, nowFunc)
  IN IF Kind(object) = "Ptr" /\ InterfacePanics(rv)
     THEN [panic |-> TRUE, err |-> "", attributes |-> EmptyMap,
           calledNowFunc |-> FALSE, now |-> 0]
     ELSE IF Kind(rv) # "Struct"
     THEN [panic |-> FALSE, err |-> ErrNotStruct, attributes |-> EmptyMap,
           calledNowFunc |-> FALSE, now |-> 0]
     ELSE [panic |-> FALSE, err |-> "",
           attributes |-> FieldLoop(rv.fields, now, EmptyMap),
           calledNowFunc |-> NeedsNowFunc(bulkNowRead), now |-> now]

\* ---------------------------------------------------------------- SQL text

\* scope.Quote of the mysql dialect.
Quote(s) == <<Backtick>> \o s \o <<Backtick>>

\* gorm.ToColumnName, on names that hold no word boundary.
ToColumnName(s) == ToLower(s)

\* scope.QuotedTableName.
QuotedTableName(object) == Quote(object.table)

Txt_InsertInto == <<"I", "N", "S", "E", "R", "T", " ", "I", "N", "T", "O", " ">>

Txt_InsertIgnoreInto == <<"I", "N", "S", "E", "R", "T", " ", "I", "G", "N", "O", "R", "E", " ", "I", "N", "T", "O", " ">>

Txt_OpenColumns == <<" ", "(">>

Txt_Values == <<")", " ", "V", "A", "L", "U", "E", "S", " ">>

Txt_OnDuplicateKeyUpdate == <<" ", "O", "N", " ", "D", "U", "P", "L", "I", "C", "A", "T", "E", " ", "K", "E", "Y", " ", "U", "P", "D", "A", "T", "E", " ">>

Txt_EqValues == <<" ", "=", " ", "V", "A", "L", "U", "E", "S", "(">>

Txt_Close == <<")">>

Txt_Open == <<"(">>

Txt_Sep == <<",", " ">>

Txt_Space == <<" ">>

Txt_Placeholder == <<"?">>

\* The statement of the custom ExecFunc of Test_scopeFromObjects.
Txt_Custom == <<"I", "N", "S", "E", "R", "T", " ", "I", "N", "T", "O">>

\* A gorm:insert_option value, as in Test_Exec.
Txt_InsertOption == <<"O", "N", " ", "D", "U", "P", "L", "I", "C", "A", "T", "E", " ", "K", "E", "Y", " ", "U", "P", "D", "A", "T", "E", " ", "f", "o", "o", " ", "=", " ", "V", "A", "L", "U", "E", "S", "(", "f", "o", "o", ")">>

\* fmt.Sprintf of a format made of %s verbs: pieces are the literal texts
\* around the verbs, args the strings put in their place.
RECURSIVE Sprintf(_, _)
Sprintf(pieces, args) ==
  IF Len(args) = 0 THEN pieces[1]
  ELSE pieces[1] \o args[1] \o Sprintf(Tail(pieces), Tail(args))

\* "INSERT INTO %s (%s) VALUES %s"
FormatInsert == <<Txt_InsertInto, Txt_OpenColumns, Txt_Values, << >>>>

\* "INSERT IGNORE INTO %s (%s) VALUES %s"
FormatInsertIgnore == <<Txt_InsertIgnoreInto, Txt_OpenColumns, Txt_Values, << >>>>

\* A plausible slip: the option is glued to the statement with no space.
FormatWithoutSpace(object, insertOption, columnNames, groups, format) ==
  Sprintf(format \o << << >> >>,
          <<QuotedTableName(object), Join(columnNames, Txt_Sep),
            Join(groups, Txt_Sep),
            IF insertOption.ok THEN insertOption.value ELSE << >> >>)

\* src/unnamed/part_000:67-85.  fmt.Sprintf("%s%%s", format) adds one verb to
\* the format; insertOption is scope.Get("gorm:insert_option").
defaultWithFormat(object, insertOption, columnNames, groups, format) ==
  LET sqlFormat == format \o << << >> >>
      extraOptions == IF insertOption.ok
                      THEN Txt_Space \o insertOption.value
                      ELSE << >>
  IN Sprintf(sqlFormat,
             <<QuotedTableName(object), Join(columnNames, Txt_Sep),
               Join(groups, Txt_Sep), extraOptions>>)

\* src/unnamed/part_000:21-23.
InsertFunc(object, insertOption, columnNames, groups) ==
  defaultWithFormat(object, insertOption, columnNames, groups, FormatInsert)

\* A plausible slip: INSERT IGNORE leaves the gorm:insert_option setting out.
InsertIgnoreWithoutOption(object, insertOption, columnNames, groups) ==
  defaultWithFormat(object, NoTag, columnNames, groups, FormatInsertIgnore)

\* src/unnamed/part_000:32-34.
InsertIgnoreFunc(object, insertOption, columnNames, groups) ==
  defaultWithFormat(object, insertOption, columnNames, groups, FormatInsertIgnore)

\* A variant: the update clause leaves created_at out, as the tests of
\* src/exec_func_test.go:54-60 and src/unnamed/part_000:1012-1028 expect.
UpdateWithoutCreatedAt(object, insertOption, columnNames, groups) ==
  LET updated == SelectSeq(columnNames, LAMBDA c : c # Quote(Str_created_at))
      duplicateUpdates ==
        [i \in 1..Len(updated) |->
           updated[i] \o Txt_EqValues \o updated[i] \o Txt_Close]
  IN Sprintf(<<Txt_InsertInto, Txt_OpenColumns, Txt_Values,
               Txt_OnDuplicateKeyUpdate, << >>>>,
             <<QuotedTableName(object), Join(columnNames, Txt_Sep),
               Join(groups, Txt_Sep), Join(duplicateUpdates, Txt_Sep)>>)

\* src/unnamed/part_000:46-65.
InsertOnDuplicateKeyUpdateFunc(object, insertOption, columnNames, groups) ==
  LET duplicateUpdates ==
        [i \in 1..Len(columnNames) |->
           columnNames[i] \o Txt_EqValues \o columnNames[i] \o Txt_Close]
  IN Sprintf(<<Txt_InsertInto, Txt_OpenColumns, Txt_Values,
               Txt_OnDuplicateKeyUpdate, << >>>>,
             <<QuotedTableName(object), Join(columnNames, Txt_Sep),
               Join(groups, Txt_Sep), Join(duplicateUpdates, Txt_Sep)>>)

\* The ExecFunc call of src/gorm_bulk.go:154: the scope's SQL and SQLVars
\* when it returns.  The custom ExecFunc is the one of Test_scopeFromObjects
\* (src/unnamed/part_000:862-865), which replaces both.
CallExecFunc(execFunc, object, insertOption, columnNames, groups, SQLVars) ==
  CASE execFunc = "InsertFunc" ->
         [SQL |-> InsertFunc(object, insertOption, columnNames, groups),
          SQLVars |-> SQLVars]
    [] execFunc = "InsertIgnoreFunc" ->
         [SQL |-> InsertIgnoreFunc(object, insertOption, columnNames, groups),
          SQLVars |-> SQLVars]
    [] execFunc = "InsertOnDuplicateKeyUpdateFunc" ->
         [SQL |-> InsertOnDuplicateKeyUpdateFunc(object, insertOption,
                                                 columnNames, groups),
          SQLVars |-> SQLVars]
    [] execFunc = "custom" ->
         [SQL |-> Txt_Custom, SQLVars |-> << >>]

\* -------------------------------------------------------- scopeFromObjects

\* src/gorm_bulk.go:113-123: the keys are appended in the order the map
\* range yields them, and the slice is sorted after every append.
RECURSIVE ColumnNames(_, _)
ColumnNames(order, columnNames) ==
  IF Len(order) = 0 THEN columnNames
  ELSE ColumnNames(Tail(order), SortStrings(Append(columnNames, order[1])))

\* src/gorm_bulk.go:119: one question mark per key.
Placeholders(order) == [i \in 1..Len(order) |-> Txt_Placeholder]

QuoteThenSort(columnNames) ==
  SortStrings([i \in 1..Len(columnNames) |-> Quote(ToColumnName(columnNames[i]))])

\* src/gorm_bulk.go:129-131.
QuotedColumnNames(columnNames) ==
  [i \in 1..Len(columnNames) |-> Quote(ToColumnName(columnNames[i]))]

RowVarsOfPresentKeys(row, columnNames) ==
  LET present == SelectSeq(columnNames, LAMBDA key : key \in DOMAIN row)
  IN [i \in 1..Len(present) |-> row[present[i]]]

\* src/gorm_bulk.go:141-143: objectScope.AddToVars(row[key]) for every key.
RowVars(row, columnNames) ==
  [i \in 1..Len(columnNames) |-> MapGet(row, columnNames[i])]

\* src/gorm_bulk.go:145-148.
Group(placeholders) == Txt_Open \o Join(placeholders, Txt_Sep) \o Txt_Close

PrependVars(SQLVars, objectVars) == objectVars \o SQLVars

\* src/gorm_bulk.go:151.
AppendVars(SQLVars, objectVars) == SQLVars \o objectVars

ExecutesAlways(scopeIsNil) == FALSE

\* src/gorm_bulk.go:77-80: no scope and no error means nothing to do.
NothingToDo(scopeIsNil) == scopeIsNil

\* ------------------------------------------------------------------ inputs

ProbeNames ==
  {<<"ID", Str_id>>, <<"CreatedAt", Str_created_at>>, <<"Code", Str_code>>}

AutoIncrementTags ==
  {NoTag, Tag(Str_AUTO_INCREMENT), Tag(Str_true), Tag(Str_false), Tag(Str_FALSE)}

ProbeValue(name, blank) ==
  IF name = "CreatedAt"
  THEN TimeVal(IF blank THEN 0 ELSE pastDate)
  ELSE Val(IF blank THEN 0 ELSE 9)

\* Every combination of the attributes ObjectToMap reads, on one field.
ProbeFields ==
  {GormField(n[1], n[2], fk, rel, ign, def, pk, ai, blank, ProbeValue(n[1], blank)) :
     n \in ProbeNames, fk \in BOOLEAN, rel \in BOOLEAN, ign \in BOOLEAN,
     def \in BOOLEAN, pk \in BOOLEAN, ai \in AutoIncrementTags, blank \in BOOLEAN}

\* A struct of one such field and one plain column.
ProbeStructs ==
  {Struct(Str_models, <<f, PlainField("Foo", Str_foo, FALSE, Val(1))>>) :
     f \in ProbeFields}

\* test{Foo, Bar} of the tests, with values that tell the rows apart.
TestRow(foo, bar) ==
  Struct(Str_tests, <<PlainField("Foo", Str_foo, FALSE, Val(foo)),
                      PlainField("Bar", Str_bar, FALSE, Val(bar))>>)

\* A struct of another shape: it has no bar column.
FooRow(foo) == Struct(Str_tests, <<PlainField("Foo", Str_foo, FALSE, Val(foo))>>)

\* struct{Foo; CreatedAt; UpdatedAt} of Test_Timestamps; a time of 0 is blank.
TimeRow(foo, createdAt, updatedAt) ==
  Struct(<< >>,
         <<PlainField("Foo", Str_foo, FALSE, Val(foo)),
           PlainField("CreatedAt", Str_created_at, createdAt = 0, TimeVal(createdAt)),
           PlainField("UpdatedAt", Str_updated_at, updatedAt = 0, TimeVal(updatedAt))>>)

\* The struct of Test_columnOrder, all fields blank.
OrderRow ==
  Struct(Str_orders,
         <<PlainField("Xxx", Str_xxx, TRUE, Val(0)),
           PlainField("Time", Str_time, TRUE, TimeVal(0)),
           PlainField("TimeFrom", Str_time_from, TRUE, TimeVal(0)),
           PlainField("Aaa", Str_aaa, TRUE, Val(0)),
           PlainField("N1", Str_n100_aa, TRUE, Val(0)),
           PlainField("N2", Str_n100_a, TRUE, Val(0))>>)

\* Objects that are no struct and no pointer to one: a string, an int, the
\* untyped nil, a nil pointer, a pointer to a nil pointer, a pointer to a
\* string, a pointer to a pointer to a struct.
Malformed ==
  {Object(0, "string", << >>, << >>), Object(0, "int", << >>, << >>),
   Object(0, "nil", << >>, << >>), Object(1, "nil", << >>, << >>),
   Object(2, "nil", << >>, << >>), Object(1, "string", << >>, << >>),
   PtrTo(PtrTo(TestRow(1, 2)))}

CatalogueRows ==
  {TestRow(1, 2), PtrTo(TestRow(3, 4)), FooRow(5),
   TimeRow(6, 0, 0), TimeRow(7, pastDate, pastDate), TimeRow(8, 0, pastDate),
   Object(0, "string", << >>, << >>), Object(1, "nil", << >>, << >>)}

SeqsUpTo(S, n) == UNION {[1..k -> S] : k \in 0..n}

RowBatches == SeqsUpTo(CatalogueRows, MaxRows)

ProbeBatches == {<<o>> : o \in ProbeStructs \cup {PtrTo(o2) : o2 \in ProbeStructs}}

MalformedBatches == {<<o>> : o \in Malformed}

OrderBatches == {<<OrderRow>>, <<OrderRow, OrderRow>>}

ExecFuncs ==
  {"InsertFunc", "InsertIgnoreFunc", "InsertOnDuplicateKeyUpdateFunc", "custom"}

InsertOptions == {NoTag, Tag(Txt_InsertOption)}

\* The calls of BulkExec: objects, execFunc, and the gorm:insert_option set
\* on db.
BulkExecCalls ==
  (RowBatches \X ExecFuncs \X InsertOptions)
    \cup ((ProbeBatches \cup MalformedBatches \cup OrderBatches)
            \X {"InsertFunc"} \X {NoTag})

\* Row k of the batches handed to BulkExecChunk.
ChunkRow(k) == TestRow(k, k)

\* The batches handed to BulkExecChunk: 0..MaxChunkRows rows that differ,
\* the batch of the test "errors returned", and batches with a malformed
\* row between well-formed ones.
ChunkBatches ==
  {[k \in 1..n |-> ChunkRow(k)] : n \in 0..MaxChunkRows}
    \cup {<<Object(0, "string", << >>, << >>), Object(0, "string", << >>, << >>),
            Object(0, "int", << >>, << >>), Object(0, "int", << >>, << >>)>>,
           <<ChunkRow(1), Object(0, "string", << >>, << >>), ChunkRow(3)>>,
           <<ChunkRow(1), Object(1, "nil", << >>, << >>), ChunkRow(3)>>}

\* The chunk sizes: an int, so also zero and negative.
ChunkSizes == (0 - 1)..MaxChunkSize

\* The calls of BulkExecChunk: objects and chunkSize; execFunc is InsertFunc.
BulkExecChunkCalls == ChunkBatches \X ChunkSizes

\* The objects handed to ObjectToMap on its own.
ObjectToMapCalls == ProbeStructs \cup CatalogueRows \cup Malformed \cup {OrderRow}

\* ------------------------------------------------------------------- state

VARIABLES
  bulkNow,  \* the package variable of src/gorm_bulk.go:19
  clock,    \* the latest instant gorm.NowFunc() has returned
  g         \* per goroutine: the locals of its call, and what it has done

vars == <<bulkNow, clock, g>>

\* A goroutine that is in no call.  entry..result are the parameters, locals
\* and return values of BulkExec, scopeFromObjects and ObjectToMap; the
\* fields from batchNow on record what the call did: the instant stored in
\* bulkNow at line 100, the number of gorm.NowFunc() calls, the ExecFunc
\* calls with their arguments, and the db.Exec calls with theirs and with
\* the error of the latest.  The fields
\* from chunked on are those of a call of BulkExecChunk, which runs its
\* BulkExec calls in the same goroutine: its parameters objects (chunkInput
\* as passed, remaining as the loop leaves it) and chunkSize, allErrors, what
\* it returns, and a record of the loop: the iterations begun, the chunk
\* handed to each BulkExec call and what each returned.
IdleLocals ==
  [pc |-> "idle", entry |-> "", objects |-> << >>, execFunc |-> "",
   insertOption |-> NoTag, scopeIsNil |-> TRUE, err |-> "", panic |-> FALSE,
   firstObjectFields |-> EmptyMap, columnNames |-> << >>,
   quotedColumnNames |-> << >>, placeholders |-> << >>, groups |-> << >>,
   i |-> 0, row |-> EmptyMap, SQL |-> << >>, SQLVars |-> << >>, result |-> "",
   batchNow |-> 0, nowCalls |-> 0,
   execFuncCalls |-> 0, execFuncColumns |-> << >>, execFuncGroups |-> << >>,
   execFuncVars |-> << >>,
   dbExecCalls |-> 0, dbExecSQL |-> << >>, dbExecVars |-> << >>,
   dbExecError |-> "",
   chunked |-> FALSE, chunkInput |-> << >>, remaining |-> << >>,
   chunkSize |-> 0, allErrors |-> << >>, chunkReturn |-> << >>,
   iterations |-> 0, chunkCalls |-> << >>, chunkResults |-> << >>]

Init ==
  /\ bulkNow = 0
  /\ clock = pastDate + 1
  /\ g = [p \in {1} |-> IdleLocals]

\* gorm.NowFunc(): time does not run backwards.
NowFuncValues == clock..MaxClock

\* src/gorm_bulk.go:71-72: BulkExec(db, objects, execFunc) calls
\* scopeFromObjects.
BulkExecCall(p) ==
  /\ g[p].pc = "idle"
  /\ \E call \in BulkExecCalls :
       g' = [g EXCEPT ![p] = [IdleLocals EXCEPT
               !.pc = "scopeFromObjects", !.entry = "BulkExec",
               !.objects = call[1], !.execFunc = call[2],
               !.insertOption = call[3]]]
  /\ UNCHANGED <<bulkNow, clock>>

\* src/gorm_bulk.go:85-104: the empty batch returns at once; otherwise the
\* scope is made, bulkNow is set and its reset is deferred.
ScopeFromObjectsEntry(p) ==
  /\ g[p].pc = "scopeFromObjects"
  /\ \/ /\ Len(g[p].objects) < 1
        /\ g' = [g EXCEPT ![p].pc = "BulkExec", ![p].scopeIsNil = TRUE]
        /\ UNCHANGED <<bulkNow, clock>>
     \/ /\ Len(g[p].objects) >= 1
        /\ \E t \in NowFuncValues :
             /\ bulkNow' = t
             /\ clock' = t
             /\ g' = [g EXCEPT ![p].pc = "firstObject", ![p].scopeIsNil = FALSE,
                               ![p].batchNow = t, ![p].nowCalls = 1]

\* src/gorm_bulk.go:106-131: the first object gives the column names, the
\* placeholders and the quoted column names.
FirstObject(p) ==
  /\ g[p].pc = "firstObject"
  /\ \E t \in NowFuncValues :
       LET r == ObjectToMap(g[p].objects[1], bulkNow, t)
           called == r.calledNowFunc
       IN /\ t = IF called THEN t ELSE clock
          /\ clock' = t
          /\ IF r.panic
             THEN g' = [g EXCEPT ![p].pc = "return", ![p].panic = TRUE]
             ELSE IF r.err # ""
             THEN g' = [g EXCEPT ![p].pc = "return", ![p].err = r.err]
             ELSE \E order \in IterationOrders(DOMAIN r.attributes) :
                    LET columnNames == ColumnNames(order, << >>)
                    IN g' = [g EXCEPT
                         ![p].pc = "rows", ![p].i = 1,
                         ![p].firstObjectFields = r.attributes,
                         ![p].columnNames = columnNames,
                         ![p].placeholders = Placeholders(order),
                         ![p].quotedColumnNames = QuotedColumnNames(columnNames),
                         ![p].nowCalls = @ + IF called THEN 1 ELSE 0]
  /\ UNCHANGED bulkNow

\* A plausible slip: the loop is left after the first row.
RangeDoneAfterFirst(i, objects) == i > 1

\* src/gorm_bulk.go:133: for _, r := range objects has visited every object
\* (i counts from 1).
RangeDone(i, objects) == i > Len(objects)

\* src/gorm_bulk.go:133-152: one iteration of the loop over the objects.
Row(p) ==
  /\ g[p].pc = "rows"
  /\ ~RangeDone(g[p].i, g[p].objects)
  /\ \E t \in NowFuncValues :
       LET r == ObjectToMap(g[p].objects[g[p].i], bulkNow, t)
           called == r.calledNowFunc
       IN /\ t = IF called THEN t ELSE clock
          /\ clock' = t
          /\ IF r.panic
             THEN g' = [g EXCEPT ![p].pc = "return", ![p].panic = TRUE]
             ELSE IF r.err # ""
             THEN g' = [g EXCEPT ![p].pc = "return", ![p].err = r.err]
             ELSE g' = [g EXCEPT
                    ![p].i = @ + 1,
                    ![p].row = r.attributes,
                    ![p].SQLVars =
                       AppendVars(@, RowVars(r.attributes, g[p].columnNames)),
                    ![p].groups = Append(@, Group(g[p].placeholders)),
                    ![p].nowCalls = @ + IF called THEN 1 ELSE 0]
  /\ UNCHANGED bulkNow

\* src/gorm_bulk.go:154: after the last row, execFunc(scope,
\* quotedColumnNames, groups).
ExecFuncStep(p) ==
  /\ g[p].pc = "rows"
  /\ RangeDone(g[p].i, g[p].objects)
  /\ LET r == CallExecFunc(g[p].execFunc, g[p].objects[1], g[p].insertOption,
                           g[p].quotedColumnNames, g[p].groups, g[p].SQLVars)
     IN g' = [g EXCEPT
          ![p].pc = "return", ![p].SQL = r.SQL, ![p].SQLVars = r.SQLVars,
          ![p].execFuncCalls = @ + 1,
          ![p].execFuncColumns = g[p].quotedColumnNames,
          ![p].execFuncGroups = g[p].groups,
          ![p].execFuncVars = g[p].SQLVars]
  /\ UNCHANGED <<bulkNow, clock>>

\* A plausible slip: bulkNow is reset on the successful return only, and a
\* return with an error leaves it as it is.
ResetOnSuccessOnly(now, err) == IF err # "" THEN now ELSE 0

\* src/gorm_bulk.go:102-104: the deferred function stores time.Time{} in
\* bulkNow, whatever bulkNow holds and whatever the call returns.
DeferredReset(now, err) == 0

\* src/gorm_bulk.go:102-104 and 110, 138, 156: every way out of
\* scopeFromObjects past line 102 runs the deferred reset of bulkNow: the
\* return of the scope, the return of an error with no scope, a panic.
ScopeFromObjectsReturn(p) ==
  /\ g[p].pc = "return"
  /\ bulkNow' = DeferredReset(bulkNow, g[p].err)
  /\ g' = [g EXCEPT
       ![p].pc = IF g[p].panic THEN "panicked" ELSE "BulkExec",
       ![p].scopeIsNil = g[p].panic \/ g[p].err # ""]
  /\ UNCHANGED clock

\* The Error of the *gorm.DB that db.Exec returns: nil, or an error of the
\* driver.
DriverErrors == {"", "driver error"}

\* A plausible slip: the statement is executed and its error is dropped.
ExecErrorDropped(e) == ""

\* src/gorm_bulk.go:82: return db.Exec(...).Error.
ExecError(e) == e

\* src/gorm_bulk.go:73-82: BulkExec returns the error, or nil when there is
\* nothing to do, or what db.Exec(scope.SQL, scope.SQLVars...) returns.
BulkExecReturn(p) ==
  /\ g[p].pc = "BulkExec"
  /\ \/ /\ g[p].err # ""
        /\ g' = [g EXCEPT ![p].pc = "done", ![p].result = g[p].err]
     \/ /\ g[p].err = ""
        /\ NothingToDo(g[p].scopeIsNil)
        /\ g' = [g EXCEPT ![p].pc = "done", ![p].result = ""]
     \/ /\ g[p].err = ""
        /\ ~NothingToDo(g[p].scopeIsNil)
        /\ \E e \in DriverErrors :
             g' = [g EXCEPT
               ![p].pc = "done", ![p].result = ExecError(e),
               ![p].dbExecCalls = @ + 1, ![p].dbExecError = e,
               ![p].dbExecSQL = g[p].SQL,
               ![p].dbExecVars = g[p].SQLVars]
  /\ UNCHANGED <<bulkNow, clock>>

\* src/gorm_bulk.go:169-241: a call of the exported ObjectToMap on its own.
ObjectToMapCall(p) ==
  /\ g[p].pc = "idle"
  /\ \E object \in ObjectToMapCalls, t \in NowFuncValues :
       LET r == ObjectToMap(object, bulkNow, t)
           called == r.calledNowFunc
       IN /\ t = IF called THEN t ELSE clock
          /\ clock' = t
          /\ g' = [g EXCEPT ![p] = [IdleLocals EXCEPT
                 !.pc = IF r.panic THEN "panicked" ELSE "done",
                 !.entry = "ObjectToMap", !.objects = <<object>>,
                 !.panic = r.panic, !.err = r.err, !.result = r.err,
                 !.row = r.attributes,
                 !.batchNow = r.now,
                 !.nowCalls = IF called THEN 1 ELSE 0]]
  /\ UNCHANGED bulkNow

\* src/gorm_bulk.go:38-39: BulkExecChunk(db, objects, execFunc, chunkSize).
BulkExecChunkCall(p) ==
  /\ g[p].pc = "idle"
  /\ \E call \in BulkExecChunkCalls :
       g' = [g EXCEPT ![p] = [IdleLocals EXCEPT
               !.pc = "chunkLoop", !.entry = "BulkExecChunk", !.chunked = TRUE,
               !.chunkInput = call[1], !.remaining = call[1],
               !.chunkSize = call[2], !.execFunc = "InsertFunc"]]
  /\ UNCHANGED <<bulkNow, clock>>

\* src/gorm_bulk.go:44: the rest of the objects fits in one chunk.
LastChunk(objects, chunkSize) == Len(objects) <= chunkSize

\* src/gorm_bulk.go:48: objects[:chunkSize] panics when chunkSize is
\* negative (slice bounds out of range).
SlicePanics(objects, chunkSize) == chunkSize < 0

\* src/gorm_bulk.go:44-50: chunkObjects.
ChunkObjects(objects, chunkSize) ==
  IF LastChunk(objects, chunkSize) THEN objects
  ELSE SubSeq(objects, 1, chunkSize)

\* A plausible slip: the next chunk starts one row late.
RestSkipsOne(objects, chunkSize) ==
  IF LastChunk(objects, chunkSize) THEN << >>
  ELSE SubSeq(objects, chunkSize + 2, Len(objects))

\* src/gorm_bulk.go:44-50: objects after the chunk is taken off.
RestObjects(objects, chunkSize) ==
  IF LastChunk(objects, chunkSize) THEN << >>
  ELSE SubSeq(objects, chunkSize + 1, Len(objects))

\* src/gorm_bulk.go:41-52: one pass through the head of the loop: the chunk
\* is cut off and BulkExec is called with it.
ChunkSplit(p) ==
  /\ g[p].pc = "chunkLoop"
  /\ g[p].iterations < MaxIterations
  /\ LET objects == g[p].remaining
         chunkSize == g[p].chunkSize
     IN IF ~LastChunk(objects, chunkSize) /\ SlicePanics(objects, chunkSize)
        THEN g' = [g EXCEPT ![p].pc = "panicked", ![p].panic = TRUE,
                            ![p].iterations = @ + 1]
        ELSE g' = [g EXCEPT ![p] = [IdleLocals EXCEPT
               !.pc = "scopeFromObjects", !.entry = "BulkExec",
               !.objects = ChunkObjects(objects, chunkSize),
               !.execFunc = g[p].execFunc,
               !.chunked = TRUE, !.chunkInput = g[p].chunkInput,
               !.remaining = RestObjects(objects, chunkSize),
               !.chunkSize = chunkSize, !.allErrors = g[p].allErrors,
               !.iterations = g[p].iterations + 1,
               !.chunkCalls = Append(g[p].chunkCalls,
                                     ChunkObjects(objects, chunkSize)),
               !.chunkResults = g[p].chunkResults]]
  /\ UNCHANGED <<bulkNow, clock>>

\* src/gorm_bulk.go:52-54.
AppendError(allErrors, err) ==
  IF err # "" THEN Append(allErrors, err) ELSE allErrors

\* A plausible slip: the loop is left only when rows are missing.
NothingMoreBelowZero(objects, allErrors) == Len(objects) < 0

\* src/gorm_bulk.go:56-59.
NothingMore(objects, allErrors) == Len(objects) < 1

\* src/gorm_bulk.go:52-66: BulkExec has returned to BulkExecChunk: its error
\* is collected, and the loop goes on, or BulkExecChunk returns allErrors (nil
\* when empty).
ChunkCollect(p) ==
  /\ g[p].pc = "done"
  /\ g[p].chunked
  /\ LET allErrors == AppendError(g[p].allErrors, g[p].result)
     IN g' = [g EXCEPT
          ![p].entry = "BulkExecChunk",
          ![p].allErrors = allErrors,
          ![p].chunkResults = Append(@, g[p].result),
          ![p].pc = IF NothingMore(g[p].remaining, allErrors)
                    THEN "chunkDone" ELSE "chunkLoop",
          ![p].chunkReturn = IF NothingMore(g[p].remaining, allErrors)
                             THEN allErrors ELSE @]
  /\ UNCHANGED <<bulkNow, clock>>

\* The caller is done with what BulkExecChunk returned.
ChunkFinish(p) ==
  /\ g[p].pc = "chunkDone"
  /\ g' = [g EXCEPT ![p] = IdleLocals]
  /\ UNCHANGED <<bulkNow, clock>>

\* The caller is done with the results; the goroutine may call again.
Finish(p) ==
  /\ g[p].pc = "done"
  /\ ~g[p].chunked
  /\ g' = [g EXCEPT ![p] = IdleLocals]
  /\ UNCHANGED <<bulkNow, clock>>

Next ==
  \/ \E p \in DOMAIN g : BulkExecCall(p)
  \/ \E p \in DOMAIN g : ScopeFromObjectsEntry(p)
  \/ \E p \in DOMAIN g : FirstObject(p)
  \/ \E p \in DOMAIN g : Row(p)
  \/ \E p \in DOMAIN g : ExecFuncStep(p)
  \/ \E p \in DOMAIN g : ScopeFromObjectsReturn(p)
  \/ \E p \in DOMAIN g : BulkExecReturn(p)
  \/ \E p \in DOMAIN g : ObjectToMapCall(p)
  \/ \E p \in DOMAIN g : Finish(p)
  \/ \E p \in DOMAIN g : BulkExecChunkCall(p)
  \/ \E p \in DOMAIN g : ChunkSplit(p)
  \/ \E p \in DOMAIN g : ChunkCollect(p)
  \/ \E p \in DOMAIN g : ChunkFinish(p)

Spec == Init /\ [][Next]_vars

\* ------------------------------------------------------- concurrent calls

\* Two goroutines that each call BulkExec once, on the same package and so
\* on the same bulkNow.  bulkNow is written at src/gorm_bulk.go:100 and 103
\* and read at 172 with no synchronisation; every step below holds at most
\* one of these accesses, so the interleavings of the steps are the orders
\* in which the accesses can happen.  A torn read of the time.Time would
\* only add outcomes to these.
Goroutines == {1, 2}

\* The batches of the concurrent calls: rows of struct{Foo; CreatedAt;
\* UpdatedAt} with blank and with set timestamps.
ConcurrentBatches ==
  {<<TimeRow(6, 0, 0)>>,
   <<TimeRow(6, 0, 0), TimeRow(8, 0, pastDate)>>}

InitConcurrent ==
  /\ bulkNow = 0
  /\ clock = pastDate + 1
  /\ g = [p \in Goroutines |-> IdleLocals]

\* src/gorm_bulk.go:71-72, in a goroutine of its own.
ConcurrentBulkExecCall(p) ==
  /\ g[p].pc = "idle"
  /\ \E objects \in ConcurrentBatches :
       g' = [g EXCEPT ![p] = [IdleLocals EXCEPT
               !.pc = "scopeFromObjects", !.entry = "BulkExec",
               !.objects = objects, !.execFunc = "InsertFunc"]]
  /\ UNCHANGED <<bulkNow, clock>>

NextConcurrent ==
  \/ \E p \in DOMAIN g : ConcurrentBulkExecCall(p)
  \/ \E p \in DOMAIN g : ScopeFromObjectsEntry(p)
  \/ \E p \in DOMAIN g : FirstObject(p)
  \/ \E p \in DOMAIN g : Row(p)
  \/ \E p \in DOMAIN g : ExecFuncStep(p)
  \/ \E p \in DOMAIN g : ScopeFromObjectsReturn(p)
  \/ \E p \in DOMAIN g : BulkExecReturn(p)

SpecConcurrent == InitConcurrent /\ [][NextConcurrent]_vars

\* ---------------------------------------------------- calls that run on

\* A step of a call in progress: BulkExecChunk, BulkExec, scopeFromObjects
\* and ObjectToMap hold no blocking operation of their own, so a goroutine
\* that is in one of them and is not stopped by a panic takes its next step.
\* db.Exec is taken to return.
RunningStep ==
  \E p \in DOMAIN g :
    \/ ScopeFromObjectsEntry(p)
    \/ FirstObject(p)
    \/ Row(p)
    \/ ExecFuncStep(p)
    \/ ScopeFromObjectsReturn(p)
    \/ BulkExecReturn(p)
    \/ ChunkSplit(p)
    \/ ChunkCollect(p)

\* The calls of BulkExecChunk (src/gorm_bulk.go:38-67), made one after
\* another.
NextChunk ==
  \/ \E p \in DOMAIN g : BulkExecChunkCall(p)
  \/ \E p \in DOMAIN g : ScopeFromObjectsEntry(p)
  \/ \E p \in DOMAIN g : FirstObject(p)
  \/ \E p \in DOMAIN g : Row(p)
  \/ \E p \in DOMAIN g : ExecFuncStep(p)
  \/ \E p \in DOMAIN g : ScopeFromObjectsReturn(p)
  \/ \E p \in DOMAIN g : BulkExecReturn(p)
  \/ \E p \in DOMAIN g : ChunkSplit(p)
  \/ \E p \in DOMAIN g : ChunkCollect(p)
  \/ \E p \in DOMAIN g : ChunkFinish(p)

SpecChunk == Init /\ [][NextChunk]_vars /\ WF_vars(RunningStep)

\* ============================================================== properties

\* The struct an object is or points to.
Deref(object) == IF object.ptrs > 0 THEN Elem(object) ELSE object

\* A struct, or a pointer to one.
IsRow(object) == object.base = "struct" /\ object.ptrs <= 1

\* The number of places of text that hold character c.
CountChar(text, c) == Cardinality({n \in 1..Len(text) : text[n] = c})

Indices(s) == 1..Len(s)

\* The ExecFunc has been called in p's call of BulkExec.
Assembled(p) == g[p].entry = "BulkExec" /\ g[p].execFuncCalls > 0

\* The first object of p's BulkExec call has been turned into a map.
FirstObjectDone(p) == g[p].entry = "BulkExec" /\ g[p].i >= 1

\* The bind values gathered so far: those the ExecFunc was handed, once it
\* has been called.
Emitted(p) == IF g[p].execFuncCalls > 0 THEN g[p].execFuncVars ELSE g[p].SQLVars

\* A field with none of the attributes the exclusion rules look at.
Untagged(field) ==
  /\ ~field.FOREIGNKEY /\ ~field.Relationship /\ ~field.IsIgnored
  /\ ~field.DEFAULT /\ ~field.IsPrimaryKey /\ ~field.AUTO_INCREMENT.ok

\* C1: for a non-empty batch whose rows are all structs or pointers to
\* structs, the ExecFunc is handed one placeholder group per row, every group
\* holds as many question marks as there are columns derived from row 0, and
\* the argument list has rows x columns elements.
C1_GroupsAndArguments ==
  \A p \in DOMAIN g :
    ( /\ g[p].entry = "BulkExec"
      /\ g[p].pc \in {"return", "BulkExec", "done"}
      /\ Len(g[p].objects) >= 1
      /\ \A r \in Indices(g[p].objects) : IsRow(g[p].objects[r]) )
    => /\ g[p].execFuncCalls = 1
       /\ Len(g[p].execFuncGroups) = Len(g[p].objects)
       /\ Len(g[p].execFuncColumns) = Cardinality(DOMAIN g[p].firstObjectFields)
       /\ \A k \in Indices(g[p].execFuncGroups) :
            CountChar(g[p].execFuncGroups[k], "?") = Len(g[p].execFuncColumns)
       /\ Len(g[p].execFuncVars) = Len(g[p].objects) * Len(g[p].execFuncColumns)

\* C1 witness: a batch of two rows of two columns has been assembled, the
\* second row of another shape than the first.
C1_Witness ==
  \E p \in DOMAIN g :
    /\ g[p].pc = "done"
    /\ g[p].objects = <<TestRow(1, 2), FooRow(5)>>
    /\ Len(g[p].execFuncGroups) = 2
    /\ Len(g[p].execFuncVars) = 4

\* C2: argument n (from 0) of the list the ExecFunc is handed is the value
\* that row n / columnCount has for the column at place n % columnCount of
\* the sorted column names, and the quoted columns handed to the ExecFunc
\* are those names in the same order.
C2_RowMajorArguments ==
  \A p \in DOMAIN g :
    Assembled(p) =>
      LET cc == Len(g[p].columnNames)
      IN /\ Len(g[p].execFuncColumns) = cc
         /\ \A k \in 1..cc :
              g[p].execFuncColumns[k] = Quote(g[p].columnNames[k])
         /\ Len(g[p].execFuncVars) = Len(g[p].objects) * cc
         /\ \A n \in 0..(Len(g[p].execFuncVars) - 1) :
              g[p].execFuncVars[n + 1] =
                MapGet(ObjectToMap(g[p].objects[(n \div cc) + 1],
                                   g[p].batchNow, g[p].batchNow).attributes,
                       g[p].columnNames[(n % cc) + 1])

\* C2 witness: two rows of two columns, four different values, each at its
\* row-major place.
C2_Witness ==
  \E p \in DOMAIN g :
    /\ Assembled(p)
    /\ g[p].objects = <<TestRow(1, 2), PtrTo(TestRow(3, 4))>>
    /\ g[p].columnNames = <<Str_bar, Str_foo>>
    /\ g[p].execFuncVars = <<Val(2), Val(1), Val(4), Val(3)>>

\* C3: the columns are the keys of the first row's map in ascending
\* byte-wise order of the unquoted names, each quoted after the sort,
\* whatever order the map was ranged in; for the struct of Test_columnOrder
\* that is 100_a, 100_aa, aaa, time, time_from, xxx.
C3_ColumnOrder ==
  \A p \in DOMAIN g :
    FirstObjectDone(p) =>
      LET names == g[p].columnNames
          cols == IF g[p].execFuncCalls > 0 THEN g[p].execFuncColumns
                  ELSE g[p].quotedColumnNames
      IN /\ {names[k] : k \in Indices(names)} = DOMAIN g[p].firstObjectFields
         /\ Len(names) = Cardinality(DOMAIN g[p].firstObjectFields)
         /\ \A a, b \in Indices(names) : a < b => StringLess(names[a], names[b])
         /\ Len(cols) = Len(names)
         /\ \A k \in Indices(names) : cols[k] = <<Backtick>> \o names[k] \o <<Backtick>>
         /\ g[p].objects[1] = OrderRow =>
              names = <<Str_n100_a, Str_n100_aa, Str_aaa, Str_time,
                        Str_time_from, Str_xxx>>

\* C3 witness: the ExecFunc was handed the columns of the struct of
\* Test_columnOrder, and the quoted names are not in ascending order.
C3_Witness ==
  \E p \in DOMAIN g :
    /\ Assembled(p)
    /\ g[p].objects[1] = OrderRow
    /\ \E a, b \in Indices(g[p].execFuncColumns) :
         a < b /\ StringLess(g[p].execFuncColumns[b], g[p].execFuncColumns[a])

\* C4: in a call that no other call overlaps, gorm.NowFunc() is called once,
\* before the first row is turned into a map; bulkNow holds that instant
\* while the rows are read; and every blank CreatedAt or UpdatedAt of every
\* row read so far is emitted as that instant.
C4_OneBatchTimestamp ==
  \A p \in DOMAIN g :
    ( /\ g[p].entry = "BulkExec"
      /\ g[p].pc \in {"firstObject", "rows", "return", "BulkExec", "done"}
      /\ Len(g[p].objects) >= 1 )
    => LET cc == Len(g[p].columnNames)
       IN /\ g[p].nowCalls = 1
          /\ ~IsZero(g[p].batchNow)
          /\ g[p].pc \in {"firstObject", "rows"} => bulkNow = g[p].batchNow
          /\ \A r \in Indices(g[p].groups), k \in 1..cc :
               LET fields == Deref(g[p].objects[r]).fields
                   arg == Emitted(p)[(r - 1) * cc + k]
               IN \A n \in Indices(fields) :
                    ( /\ fields[n].DBName = g[p].columnNames[k]
                      /\ IsTimestampField(fields[n])
                      /\ fields[n].IsBlank )
                    => /\ arg \in {NilVal, TimeVal(g[p].batchNow)}
                       /\ Untagged(fields[n]) => arg = TimeVal(g[p].batchNow)

\* C4 witness: two rows with blank timestamps were assembled and carry the
\* one instant of the batch; the set UpdatedAt of the second row is kept.
C4_Witness ==
  \E p \in DOMAIN g :
    /\ g[p].pc = "done"
    /\ g[p].objects = <<TimeRow(6, 0, 0), TimeRow(8, 0, pastDate)>>
    /\ g[p].execFuncVars =
         <<TimeVal(g[p].batchNow), Val(6), TimeVal(g[p].batchNow),
           TimeVal(g[p].batchNow), Val(8), TimeVal(pastDate)>>

\* A call has turned its first object into a map: a call of ObjectToMap that
\* returned one, or a call of BulkExec past its first object.
NormalizedFirst(p) ==
  \/ g[p].entry = "ObjectToMap" /\ g[p].pc = "done" /\ g[p].err = ""
  \/ FirstObjectDone(p)

\* That map, and the fields of the struct it was made from.
FirstMap(p) ==
  IF g[p].entry = "ObjectToMap" THEN g[p].row ELSE g[p].firstObjectFields

FirstFields(p) == Deref(g[p].objects[1]).fields

NamedTimestamp(field) == field.Name \in {"CreatedAt", "UpdatedAt"}

\* The spellings of false among the AUTO_INCREMENT tag values of the inputs.
FalseSpellings == {Str_false, Str_FALSE}

\* C5: a non-blank CreatedAt or UpdatedAt is never replaced: where its column
\* is in the map it holds the caller's value, a field no rule excludes is in
\* the map, and every row read so far is emitted with the caller's value.
C5_NonBlankTimestampKept ==
  \A p \in DOMAIN g :
    /\ NormalizedFirst(p) =>
         \A n \in Indices(FirstFields(p)) :
           LET field == FirstFields(p)[n]
           IN (NamedTimestamp(field) /\ ~field.IsBlank)
              => /\ field.DBName \in DOMAIN FirstMap(p)
                      => FirstMap(p)[field.DBName] = field.Value
                 /\ Untagged(field) => field.DBName \in DOMAIN FirstMap(p)
    /\ g[p].entry = "BulkExec" =>
         LET cc == Len(g[p].columnNames)
         IN \A r \in Indices(g[p].groups), k \in 1..cc :
              LET fields == Deref(g[p].objects[r]).fields
                  arg == Emitted(p)[(r - 1) * cc + k]
              IN \A n \in Indices(fields) :
                   ( /\ fields[n].DBName = g[p].columnNames[k]
                     /\ NamedTimestamp(fields[n])
                     /\ ~fields[n].IsBlank )
                   => /\ arg \in {NilVal, fields[n].Value}
                      /\ Untagged(fields[n]) => arg = fields[n].Value

\* C5 witness: a row whose two timestamps are set was assembled with them,
\* at an instant that is another one.
C5_Witness ==
  \E p \in DOMAIN g :
    /\ g[p].pc = "done"
    /\ g[p].objects = <<TimeRow(7, pastDate, pastDate)>>
    /\ g[p].batchNow # pastDate
    /\ g[p].execFuncVars = <<TimeVal(pastDate), Val(7), TimeVal(pastDate)>>

\* C6: a field with a FOREIGNKEY tag, a relationship field, an ignored field
\* and a blank field with a DEFAULT tag are not in the map ObjectToMap
\* returns, and so not among the columns of the statement.
C6_ExcludedFieldsAbsent ==
  \A p \in DOMAIN g :
    NormalizedFirst(p) =>
      \A n \in Indices(FirstFields(p)) :
        LET field == FirstFields(p)[n]
        IN ( \/ field.FOREIGNKEY
             \/ field.Relationship
             \/ field.IsIgnored
             \/ field.IsBlank /\ field.DEFAULT )
           => /\ field.DBName \notin DOMAIN FirstMap(p)
              /\ \A k \in Indices(g[p].columnNames) :
                   g[p].columnNames[k] # field.DBName

\* The primary keys C7 is about: those no rule before the one on id excludes.
C7_Covers(field) ==
  /\ field.IsPrimaryKey
  /\ ~field.FOREIGNKEY /\ ~field.Relationship /\ ~field.IsIgnored
  /\ ~(field.IsBlank /\ field.DEFAULT)

\* What C7 says of such a field: it is left out exactly when it is the blank
\* id, and a field that is set is in the map with its value.
C7_Says(p, field) ==
  /\ field.DBName \in DOMAIN FirstMap(p)
       <=> ~(field.DBName = Str_id /\ field.IsBlank)
  /\ ~field.IsBlank => MapGet(FirstMap(p), field.DBName) = field.Value

\* C7 as stated: a primary key that no earlier rule excludes is excluded
\* exactly when its column is id and its value is blank.
C7_Original ==
  \A p \in DOMAIN g :
    NormalizedFirst(p) =>
      \A n \in Indices(FirstFields(p)) :
        C7_Covers(FirstFields(p)[n]) => C7_Says(p, FirstFields(p)[n])

\* C7, amended: a primary key that no earlier rule excludes and that has no
\* AUTO_INCREMENT tag other than false is excluded exactly when its column is
\* id and its value is blank; a non-blank one is included with its value.
C7_PrimaryKeyWithoutAutoIncrement ==
  \A p \in DOMAIN g :
    NormalizedFirst(p) =>
      \A n \in Indices(FirstFields(p)) :
        LET field == FirstFields(p)[n]
        IN ( /\ C7_Covers(field)
             /\ field.AUTO_INCREMENT.ok
                  => field.AUTO_INCREMENT.value \in FalseSpellings )
           => C7_Says(p, field)

\* C7 witness: a set primary key id is in the map with its value, and so is
\* a blank primary key of another name in another call.
C7_Witness ==
  \E p \in DOMAIN g :
    /\ NormalizedFirst(p)
    /\ LET field == FirstFields(p)[1]
       IN /\ C7_Covers(field) /\ ~field.AUTO_INCREMENT.ok
          /\ \/ /\ field.DBName = Str_id /\ ~field.IsBlank
                /\ FirstMap(p)[Str_id] = field.Value
             \/ /\ field.DBName = Str_code /\ field.IsBlank
                /\ Str_code \in DOMAIN FirstMap(p)

\* Field n of the first object carries an AUTO_INCREMENT tag.
C8_Tagged(p, n) == FirstFields(p)[n].AUTO_INCREMENT.ok

\* C8 as stated: a field with an AUTO_INCREMENT tag is excluded whatever its
\* name and value, unless the tag's value is false in any case, and then it
\* is included with its current value.
C8_Original ==
  \A p \in DOMAIN g :
    NormalizedFirst(p) =>
      \A n \in Indices(FirstFields(p)) :
        LET field == FirstFields(p)[n]
        IN C8_Tagged(p, n) =>
             IF field.AUTO_INCREMENT.value \in FalseSpellings
             THEN /\ field.DBName \in DOMAIN FirstMap(p)
                  /\ FirstMap(p)[field.DBName] = field.Value
             ELSE field.DBName \notin DOMAIN FirstMap(p)

\* C8, amended: a field with an AUTO_INCREMENT tag is excluded whatever its
\* name and value, unless the tag's value is false in any case; then a field
\* that has no FOREIGNKEY tag, is no relationship, is not ignored, is not
\* blank with a DEFAULT tag and is not the blank primary key id is included,
\* with its current value, or with the timestamp of the call when it is a
\* blank CreatedAt or UpdatedAt.
C8_AutoIncrement ==
  \A p \in DOMAIN g :
    NormalizedFirst(p) =>
      \A n \in Indices(FirstFields(p)) :
        LET field == FirstFields(p)[n]
        IN C8_Tagged(p, n) =>
             IF field.AUTO_INCREMENT.value \in FalseSpellings
             THEN ( /\ ~field.FOREIGNKEY /\ ~field.Relationship
                    /\ ~field.IsIgnored
                    /\ ~(field.IsBlank /\ field.DEFAULT)
                    /\ ~(field.DBName = Str_id /\ field.IsPrimaryKey
                         /\ field.IsBlank) )
                  => /\ field.DBName \in DOMAIN FirstMap(p)
                     /\ FirstMap(p)[field.DBName] =
                          IF NamedTimestamp(field) /\ field.IsBlank
                          THEN TimeVal(g[p].batchNow)
                          ELSE field.Value
             ELSE field.DBName \notin DOMAIN FirstMap(p)

\* C8 witness: a set field tagged AUTO_INCREMENT:FALSE is in the map with its
\* value, and a set field of another name than id tagged AUTO_INCREMENT is
\* left out in another call.
C8_Witness ==
  \E p \in DOMAIN g :
    /\ NormalizedFirst(p)
    /\ LET field == FirstFields(p)[1]
       IN /\ field.DBName = Str_code /\ ~field.IsBlank
          /\ \/ /\ field.AUTO_INCREMENT = Tag(Str_FALSE)
                /\ FirstMap(p)[Str_code] = field.Value
             \/ /\ field.AUTO_INCREMENT = Tag(Str_AUTO_INCREMENT)
                /\ Untagged([field EXCEPT !.AUTO_INCREMENT = NoTag])
                /\ Str_code \notin DOMAIN FirstMap(p)

\* C9: BulkExec of an empty batch reads no clock, turns no object into a
\* map, calls no ExecFunc and executes nothing; scopeFromObjects returns nil
\* and nil, and BulkExec returns nil.
C9_EmptyBatchNoOp ==
  \A p \in DOMAIN g :
    (g[p].entry = "BulkExec" /\ Len(g[p].objects) = 0)
    => /\ g[p].pc \in {"scopeFromObjects", "BulkExec", "done"}
       /\ g[p].nowCalls = 0
       /\ g[p].execFuncCalls = 0
       /\ g[p].dbExecCalls = 0
       /\ g[p].err = "" /\ ~g[p].panic
       /\ g[p].pc \in {"BulkExec", "done"} => g[p].scopeIsNil
       /\ g[p].pc = "done" => g[p].result = ""
       /\ bulkNow = 0

\* C9 witness: BulkExec of no objects has returned.
C9_Witness ==
  \E p \in DOMAIN g :
    /\ g[p].entry = "BulkExec" /\ g[p].pc = "done"
    /\ g[p].objects = << >>
    /\ g[p].result = ""

\* C10: for an object that is no struct and no pointer to a struct,
\* ObjectToMap returns the error "value must be kind of Struct" and no map;
\* the call never ends in a panic.
C10_MalformedIsAnError ==
  \A p \in DOMAIN g :
    ( /\ g[p].entry = "ObjectToMap"
      /\ g[p].pc \in {"done", "panicked"}
      /\ ~IsRow(g[p].objects[1]) )
    => /\ g[p].pc = "done"
       /\ g[p].err = ErrNotStruct
       /\ g[p].row = EmptyMap

\* C11: when a row of the batch, the first or a later one, is no struct and
\* no pointer to one, scopeFromObjects returns no scope and the error,
\* BulkExec returns that error, and neither the ExecFunc nor the database is
\* called.
C11_FailFast ==
  \A p \in DOMAIN g :
    ( /\ g[p].entry = "BulkExec"
      /\ \E r \in Indices(g[p].objects) : ~IsRow(g[p].objects[r]) )
    => /\ g[p].pc # "panicked"
       /\ g[p].execFuncCalls = 0
       /\ g[p].dbExecCalls = 0
       /\ g[p].pc \in {"BulkExec", "done"}
            => g[p].scopeIsNil /\ g[p].err = ErrNotStruct
       /\ g[p].pc = "done" => g[p].result = ErrNotStruct

\* Some later row of p's batch has no value for a column of the first row.
C12_LacksColumn(p) ==
  /\ FirstObjectDone(p)
  /\ \A r \in Indices(g[p].objects) : IsRow(g[p].objects[r])
  /\ \E r \in 2..Len(g[p].objects) :
       ~(DOMAIN g[p].firstObjectFields \subseteq
           DOMAIN ObjectToMap(g[p].objects[r], g[p].batchNow,
                              g[p].batchNow).attributes)

\* C12: when a later row lacks a column of the first row, BulkExec fails
\* with an error; no ExecFunc builds a statement and none is executed.
C12_ColumnMismatchFails ==
  \A p \in DOMAIN g :
    C12_LacksColumn(p)
    => /\ g[p].execFuncCalls = 0
       /\ g[p].dbExecCalls = 0
       /\ g[p].pc = "done" => g[p].result # ""

\* The sequences of seqs, one after the other.
RECURSIVE Concat(_)
Concat(seqs) ==
  IF Len(seqs) = 0 THEN << >> ELSE Head(seqs) \o Concat(Tail(seqs))

\* The least number of chunks of size rows that hold n rows.
CeilDiv(n, size) == (n + size - 1) \div size

\* p is in, or has returned from, a call of BulkExecChunk with at least one
\* row and a chunk size of at least one.
ChunkedRun(p) ==
  g[p].chunked /\ Len(g[p].chunkInput) >= 1 /\ g[p].chunkSize >= 1

\* C13: for chunkSize >= 1 and n >= 1 rows, the chunks handed to BulkExec
\* are, in order, consecutive pieces of the input: each has 1..chunkSize
\* rows, each one that is followed by more rows has chunkSize rows, and with
\* the rows not yet sent they make up the input; when BulkExecChunk returns,
\* BulkExec was called and has returned ceil(n / chunkSize) times and
\* nothing is left.
C13_ContiguousChunks ==
  \A p \in DOMAIN g :
    ChunkedRun(p) =>
      LET calls == g[p].chunkCalls
          n == Len(g[p].chunkInput)
      IN /\ Concat(calls) \o g[p].remaining = g[p].chunkInput
         /\ \A c \in Indices(calls) :
              /\ Len(calls[c]) >= 1
              /\ Len(calls[c]) <= g[p].chunkSize
              /\ (c < Len(calls) \/ Len(g[p].remaining) > 0)
                   => Len(calls[c]) = g[p].chunkSize
         /\ g[p].iterations = Len(calls)
         /\ g[p].pc = "chunkDone"
              => /\ Len(calls) = CeilDiv(n, g[p].chunkSize)
                 /\ Len(g[p].chunkResults) = Len(calls)
                 /\ Concat(calls) = g[p].chunkInput

\* C13 witness: seven rows at size 3 went out as chunks of 3, 3 and 1.
C13_Witness ==
  \E p \in DOMAIN g :
    /\ g[p].pc = "chunkDone"
    /\ Len(g[p].chunkInput) = 7 /\ g[p].chunkSize = 3
    /\ g[p].chunkCalls =
         <<<<ChunkRow(1), ChunkRow(2), ChunkRow(3)>>,
           <<ChunkRow(4), ChunkRow(5), ChunkRow(6)>>,
           <<ChunkRow(7)>>>>
    /\ g[p].dbExecCalls = 1

\* The chunks that failed, by what BulkExec returned for each.
FailedResults(p) == SelectSeq(g[p].chunkResults, LAMBDA e : e # "")

\* C14: in BulkExecChunk with a chunk size of at least one, a failing chunk
\* never stops the run: the run does not end in a panic, and when it returns
\* every chunk of the input was handed to BulkExec, the list returned holds
\* the errors of the failed chunks in chunk order, and it is nil exactly
\* when no chunk failed.
C14_AllChunksAttempted ==
  \A p \in DOMAIN g :
    (g[p].chunked /\ g[p].chunkSize >= 1)
    => /\ g[p].pc # "panicked"
       /\ g[p].allErrors =
            SelectSeq(g[p].chunkResults, LAMBDA e : e # "")
       /\ g[p].pc = "chunkDone"
            => /\ Concat(g[p].chunkCalls) = g[p].chunkInput
               /\ Len(g[p].chunkResults) = Len(g[p].chunkCalls)
               /\ g[p].chunkReturn = FailedResults(p)
               /\ g[p].chunkReturn = << >>
                    <=> \A c \in Indices(g[p].chunkResults) :
                          g[p].chunkResults[c] = ""

\* The text of the statement the ExecFunc left on the scope, and the table
\* of the scope, which is that of the first object.
Statement(p) == g[p].SQL

TableOf(p) == Deref(g[p].objects[1]).table

\* The elements with ", " between them.
RECURSIVE CommaJoined(_)
CommaJoined(elems) ==
  IF Len(elems) = 0 THEN << >>
  ELSE IF Len(elems) = 1 THEN elems[1]
  ELSE elems[1] \o <<",", " ">> \o CommaJoined(Tail(elems))

Lit_InsertInto ==
  <<"I", "N", "S", "E", "R", "T", " ", "I", "N", "T", "O", " ">>

Lit_InsertIgnoreInto ==
  <<"I", "N", "S", "E", "R", "T", " ", "I", "G", "N", "O", "R", "E", " ",
    "I", "N", "T", "O", " ">>

Lit_Values ==
  <<")", " ", "V", "A", "L", "U", "E", "S", " ">>

Lit_OnDuplicateKeyUpdate ==
  <<" ", "O", "N", " ", "D", "U", "P", "L", "I", "C", "A", "T", "E", " ",
    "K", "E", "Y", " ", "U", "P", "D", "A", "T", "E", " ">>

\* verb, the quoted table, the columns in brackets, VALUES and the groups
\* that the ExecFunc was handed.
PlainInsert(p, verb) ==
  verb \o <<Backtick>> \o TableOf(p) \o <<Backtick, " ", "(">>
    \o CommaJoined(g[p].execFuncColumns) \o Lit_Values
    \o CommaJoined(g[p].execFuncGroups)

\* One space and the gorm:insert_option setting when it is set, else nothing.
TrailingOption(p) ==
  IF g[p].insertOption.ok THEN <<" ">> \o g[p].insertOption.value ELSE << >>

\* The ExecFunc f has been called in p's call of BulkExec.
Ran(p, f) == Assembled(p) /\ g[p].execFunc = f

\* C15: InsertFunc leaves "INSERT INTO <quoted table> (<columns joined by
\* ', '>) VALUES <groups joined by ', '>" on the scope, followed by a space
\* and the gorm:insert_option setting when that is set and by nothing when it
\* is not.
C15_InsertStatement ==
  \A p \in DOMAIN g :
    Ran(p, "InsertFunc") =>
      Statement(p) = PlainInsert(p, Lit_InsertInto) \o TrailingOption(p)

\* C15 witness: two rows of test with the option of Test_Exec set.
C15_Witness ==
  \E p \in DOMAIN g :
    /\ Ran(p, "InsertFunc")
    /\ g[p].objects = <<TestRow(1, 2), PtrTo(TestRow(3, 4))>>
    /\ g[p].insertOption.ok
    /\ Statement(p) =
         <<"I", "N", "S", "E", "R", "T", " ", "I", "N", "T", "O", " ",
           Backtick, "t", "e", "s", "t", "s", Backtick, " ", "(", Backtick,
           "b", "a", "r", Backtick, ",", " ", Backtick, "f", "o", "o",
           Backtick, ")", " ", "V", "A", "L", "U", "E", "S", " ", "(", "?",
           ",", " ", "?", ")", ",", " ", "(", "?", ",", " ", "?", ")", " ",
           "O", "N", " ", "D", "U", "P", "L", "I", "C", "A", "T", "E", " ",
           "K", "E", "Y", " ", "U", "P", "D", "A", "T", "E", " ", "f", "o",
           "o", " ", "=", " ", "V", "A", "L", "U", "E", "S", "(", "f", "o",
           "o", ")">>

\* C16 as stated: InsertIgnoreFunc leaves the plain insert with IGNORE before
\* INTO and never appends the gorm:insert_option setting.
C16_Original ==
  \A p \in DOMAIN g :
    Ran(p, "InsertIgnoreFunc") =>
      Statement(p) = PlainInsert(p, Lit_InsertIgnoreInto)

\* C16, amended: InsertIgnoreFunc leaves the statement of the plain insert
\* with IGNORE before INTO, and like InsertFunc appends a space and the
\* gorm:insert_option setting when that is set, and nothing when it is not.
C16_InsertIgnoreStatement ==
  \A p \in DOMAIN g :
    Ran(p, "InsertIgnoreFunc") =>
      Statement(p) = PlainInsert(p, Lit_InsertIgnoreInto) \o TrailingOption(p)

\* C16 witness: INSERT IGNORE of two rows, with the option appended.
C16_Witness ==
  \E p \in DOMAIN g :
    /\ Ran(p, "InsertIgnoreFunc")
    /\ g[p].objects = <<TestRow(1, 2), PtrTo(TestRow(3, 4))>>
    /\ g[p].insertOption.ok
    /\ Statement(p) =
         <<"I", "N", "S", "E", "R", "T", " ", "I", "G", "N", "O", "R", "E",
           " ", "I", "N", "T", "O", " ", Backtick, "t", "e", "s", "t", "s",
           Backtick, " ", "(", Backtick, "b", "a", "r", Backtick, ",", " ",
           Backtick, "f", "o", "o", Backtick, ")", " ", "V", "A", "L", "U",
           "E", "S", " ", "(", "?", ",", " ", "?", ")", ",", " ", "(", "?",
           ",", " ", "?", ")", " ", "O", "N", " ", "D", "U", "P", "L", "I",
           "C", "A", "T", "E", " ", "K", "E", "Y", " ", "U", "P", "D", "A",
           "T", "E", " ", "f", "o", "o", " ", "=", " ", "V", "A", "L", "U",
           "E", "S", "(", "f", "o", "o", ")">>

\* col = VALUES(col) for every column of columns.
UpdateEntries(columns) ==
  [k \in Indices(columns) |->
     columns[k] \o <<" ", "=", " ", "V", "A", "L", "U", "E", "S", "(">>
       \o columns[k] \o <<")">>]

C18_CreatedAtNotUpdated ==
  \A p \in DOMAIN g :
    ( /\ Ran(p, "InsertOnDuplicateKeyUpdateFunc")
      /\ \E k \in Indices(g[p].execFuncColumns) :
           g[p].execFuncColumns[k] = <<Backtick>> \o Str_created_at \o <<Backtick>> )
    => Statement(p) =
         PlainInsert(p, Lit_InsertInto) \o Lit_OnDuplicateKeyUpdate
           \o CommaJoined(UpdateEntries(
                SelectSeq(g[p].execFuncColumns,
                          LAMBDA c : c # <<Backtick>> \o Str_created_at \o <<Backtick>>)))

\* C19: for a non-empty batch that assembles without error, BulkExec
\* executes one statement and no more, with the text and the arguments the
\* ExecFunc left on the scope (for the bundled ones the arguments gathered
\* from the rows, for the custom one of the tests its own text and no
\* arguments), and returns the error of that execution as it is, nil when
\* there is none.
C19_ExecutesOnce ==
  \A p \in DOMAIN g :
    /\ g[p].dbExecCalls <= 1
    /\ (g[p].entry = "BulkExec" /\ g[p].pc = "done" /\ g[p].execFuncCalls = 1)
       => /\ g[p].dbExecCalls = 1
          /\ g[p].result = g[p].dbExecError
          /\ IF g[p].execFunc = "custom"
             THEN g[p].dbExecSQL = Txt_Custom /\ g[p].dbExecVars = << >>
             ELSE /\ g[p].dbExecVars = g[p].execFuncVars
                  /\ g[p].dbExecSQL =
                       CallExecFunc(g[p].execFunc, g[p].objects[1],
                                    g[p].insertOption, g[p].execFuncColumns,
                                    g[p].execFuncGroups, << >>).SQL
    /\ (g[p].entry = "BulkExec" /\ g[p].execFuncCalls = 0)
         => g[p].dbExecCalls = 0

\* C19 witness: the statement of the custom ExecFunc was executed once, with
\* no arguments although the row gave two, and the driver's error came back.
C19_Witness ==
  \E p \in DOMAIN g :
    /\ g[p].entry = "BulkExec" /\ g[p].pc = "done" /\ g[p].dbExecCalls = 1
    /\ g[p].execFunc = "custom"
    /\ g[p].execFuncVars = <<Val(2), Val(1)>>
    /\ g[p].dbExecSQL = Txt_Custom /\ g[p].dbExecVars = << >>
    /\ g[p].result = "driver error"

\* C20: when calls of BulkExec run in different goroutines, every blank
\* CreatedAt and UpdatedAt of every row a call has read is emitted as the one
\* instant that this call itself took from gorm.NowFunc() at its start.
C20_ConcurrentBatchesCoherent ==
  \A p \in DOMAIN g :
    g[p].entry = "BulkExec" =>
      LET cc == Len(g[p].columnNames)
      IN \A r \in Indices(g[p].groups), k \in 1..cc :
           LET fields == Deref(g[p].objects[r]).fields
           IN \A n \in Indices(fields) :
                ( /\ fields[n].DBName = g[p].columnNames[k]
                  /\ NamedTimestamp(fields[n])
                  /\ fields[n].IsBlank )
                => Emitted(p)[(r - 1) * cc + k] = TimeVal(g[p].batchNow)


\* Goroutine p is in no call of scopeFromObjects: it is idle, or in BulkExec
\* or BulkExecChunk before or after their call of it, or was stopped by a
\* panic that left scopeFromObjects.
OutsideScopeFromObjects(p) ==
  g[p].pc \in {"idle", "scopeFromObjects", "BulkExec", "done", "chunkLoop",
               "chunkDone", "panicked"}

\* C21: no batch state survives a call: whenever no scopeFromObjects call is
\* in progress, whether the calls before ended in success, in an error of
\* ObjectToMap or on an empty batch, bulkNow is the zero time; and a call of
\* ObjectToMap on its own that succeeds has read gorm.NowFunc() itself, once.
C21_NoBatchStateSurvives ==
  /\ (\A p \in DOMAIN g : OutsideScopeFromObjects(p)) => IsZero(bulkNow)
  /\ \A p \in DOMAIN g :
       ( /\ g[p].entry = "ObjectToMap"
         /\ g[p].pc = "done"
         /\ g[p].err = "" )
       => /\ g[p].nowCalls = 1
          /\ g[p].batchNow = clock

\* C21 witness: a BulkExec call that stored an instant in bulkNow has
\* returned the error of its second row, and bulkNow is zero again.
C21_Witness ==
  \E p \in DOMAIN g :
    /\ g[p].entry = "BulkExec"
    /\ g[p].pc = "done"
    /\ Len(g[p].objects) = 2
    /\ g[p].i = 2
    /\ g[p].result = ErrNotStruct
    /\ ~IsZero(g[p].batchNow)
    /\ IsZero(bulkNow)


\* C22: the timestamp rule goes before the default-value rule: a blank
\* CreatedAt or UpdatedAt field with a DEFAULT tag, which no other exclusion
\* rule touches, is in the map with the batch-wide timestamp as its value.
C22_TimestampBeforeDefault ==
  \A p \in DOMAIN g :
    NormalizedFirst(p) =>
      \A n \in Indices(FirstFields(p)) :
        LET field == FirstFields(p)[n]
        IN ( /\ NamedTimestamp(field)
             /\ field.IsBlank
             /\ field.DEFAULT
             /\ ~field.FOREIGNKEY /\ ~field.Relationship /\ ~field.IsIgnored
             /\ ~field.IsPrimaryKey /\ ~field.AUTO_INCREMENT.ok )
           => /\ field.DBName \in DOMAIN FirstMap(p)
              /\ MapGet(FirstMap(p), field.DBName) = TimeVal(g[p].batchNow)


\* C23: BulkExecChunk with a chunkSize of zero or less on a non-empty input
\* does no chunking: it does not panic, it calls BulkExec once, with all the
\* rows, and it returns the outcome of that call.
C23_NonPositiveChunkSizeIsNoChunking ==
  \A p \in DOMAIN g :
    ( /\ g[p].chunked
      /\ g[p].chunkSize <= 0
      /\ Len(g[p].chunkInput) >= 1 )
    => /\ g[p].pc # "panicked"
       /\ Len(g[p].chunkCalls) <= 1
       /\ \A k \in Indices(g[p].chunkCalls) : g[p].chunkCalls[k] = g[p].chunkInput
       /\ g[p].pc = "chunkDone" =>
            /\ Len(g[p].chunkCalls) = 1
            /\ g[p].chunkReturn = AppendError(<< >>, g[p].chunkResults[1])


\* A pointer to a struct.
IsStructPointer(object) == object.base = "struct" /\ object.ptrs = 1

\* The struct value v of &v; a struct value is its own.
Pointee(object) == [object EXCEPT !.ptrs = 0]

\* What ObjectToMap returns for the struct value behind object, blank
\* timestamps set to now.
ValueMap(object, now) == ObjectToMap(Pointee(object), now, now)

\* The columns and the arguments a batch of the pointed-to struct values
\* assembles to.
ValueBatchNames(objects, now) ==
  LET keys == DOMAIN ValueMap(objects[1], now).attributes
  IN ColumnNames(CHOOSE order \in IterationOrders(keys) : TRUE, << >>)

ValueBatchVars(objects, now) ==
  Concat([k \in Indices(objects) |->
            RowVars(ValueMap(objects[k], now).attributes,
                    ValueBatchNames(objects, now))])

\* C24: a pointer to a struct normalizes as the struct does: ObjectToMap of
\* &v returns no error and the map ObjectToMap of v returns, and a batch of
\* structs and pointers to structs, with at least one pointer, is assembled
\* to the columns and arguments of the batch of the struct values.
C24_PointerAsStruct ==
  \A p \in DOMAIN g :
    /\ ( /\ g[p].entry = "ObjectToMap"
         /\ IsStructPointer(g[p].objects[1]) )
       => /\ g[p].pc = "done"
          /\ g[p].err = ""
          /\ g[p].row = ValueMap(g[p].objects[1], g[p].batchNow).attributes
    /\ ( /\ g[p].entry = "BulkExec"
         /\ g[p].pc \in {"return", "BulkExec", "done"}
         /\ \A r \in Indices(g[p].objects) : IsRow(g[p].objects[r])
         /\ \E r \in Indices(g[p].objects) : IsStructPointer(g[p].objects[r]) )
       => /\ g[p].err = "" /\ ~g[p].panic
          /\ g[p].firstObjectFields =
               ValueMap(g[p].objects[1], g[p].batchNow).attributes
          /\ g[p].execFuncColumns =
               QuotedColumnNames(ValueBatchNames(g[p].objects, g[p].batchNow))
          /\ g[p].execFuncVars = ValueBatchVars(g[p].objects, g[p].batchNow)

\* C24 witness: a batch of one pointer to a struct with a blank CreatedAt has
\* been assembled: its arguments are the batch timestamp and the value of
\* foo, as for the struct itself.
C24_Witness ==
  \E p \in DOMAIN g :
    /\ g[p].entry = "BulkExec"
    /\ g[p].pc = "done"
    /\ Len(g[p].objects) = 1
    /\ IsStructPointer(g[p].objects[1])
    /\ g[p].columnNames = <<Str_created_at, Str_foo>>
    /\ g[p].execFuncVars = <<TimeVal(g[p].batchNow), Val(1)>>


\* scopeFromObjects has returned to p's call of BulkExec, or was left by a
\* panic.
ScopeFromObjectsLeft(p) ==
  /\ g[p].entry = "BulkExec"
  /\ g[p].pc \in {"BulkExec", "done", "panicked"}

\* C25: in a scopeFromObjects call the ExecFunc is called at most once; when
\* it is called the batch is not empty, no row has failed, and the groups and
\* values of all rows are in what it is handed; once the call has returned
\* it has been called exactly once if the batch is not empty and every row
\* is a struct or a pointer to one, and never if the batch is empty or a row
\* failed.
C25_ExecFuncOnceAfterAllRows ==
  \A p \in DOMAIN g :
    g[p].entry = "BulkExec" =>
      /\ g[p].execFuncCalls <= 1
      /\ g[p].execFuncCalls = 1 =>
           /\ Len(g[p].objects) >= 1
           /\ g[p].err = "" /\ ~g[p].panic
           /\ g[p].i = Len(g[p].objects) + 1
           /\ Len(g[p].execFuncGroups) = Len(g[p].objects)
           /\ Len(g[p].execFuncVars) = Len(g[p].objects) * Len(g[p].columnNames)
      /\ ScopeFromObjectsLeft(p) =>
           IF /\ Len(g[p].objects) >= 1
              /\ \A r \in Indices(g[p].objects) : IsRow(g[p].objects[r])
           THEN g[p].execFuncCalls = 1
           ELSE g[p].execFuncCalls = 0
      /\ (g[p].err # "" \/ g[p].panic) => g[p].execFuncCalls = 0

\* C25 witness: the ExecFunc has just been called, once, after both rows of
\* a batch of two gave their three values.
C25_Witness ==
  \E p \in DOMAIN g :
    /\ g[p].entry = "BulkExec"
    /\ g[p].pc = "return"
    /\ g[p].objects = <<TimeRow(6, 0, 0), TimeRow(8, 0, pastDate)>>
    /\ g[p].i = 3
    /\ g[p].execFuncCalls = 1
    /\ Len(g[p].execFuncVars) = 6


\* p is in a call of BulkExecChunk with a chunk size of at least one.
SizedRun(p) == g[p].chunked /\ g[p].chunkSize >= 1

\* The step from the head of the loop of BulkExecChunk: with more than
\* chunkSize rows left it takes exactly the first chunkSize of them off,
\* otherwise it leaves none.
C26_Iteration ==
  \A p \in DOMAIN g :
    ( /\ SizedRun(p)
      /\ g[p].pc = "chunkLoop"
      /\ g'[p].pc # "chunkLoop" )
    => /\ g'[p].iterations = g[p].iterations + 1
       /\ IF Len(g[p].remaining) > g[p].chunkSize
          THEN /\ Len(g'[p].remaining) = Len(g[p].remaining) - g[p].chunkSize
               /\ g'[p].remaining =
                    SubSeq(g[p].remaining, g[p].chunkSize + 1, Len(g[p].remaining))
          ELSE g'[p].remaining = << >>

\* The loop is left exactly by the iteration that leaves no row: it goes on
\* while rows are left, and BulkExecChunk returns with none left.
C26_Exit ==
  \A p \in DOMAIN g :
    SizedRun(p) =>
      /\ (g[p].pc = "chunkLoop" /\ g[p].iterations >= 1) => Len(g[p].remaining) >= 1
      /\ g[p].pc = "chunkDone" => Len(g[p].remaining) = 0
      /\ \/ g[p].iterations <= 1
         \/ (g[p].iterations - 1) * g[p].chunkSize < Len(g[p].chunkInput)

\* The empty input makes one iteration, whose BulkExec call does nothing,
\* and nil is returned.
C26_EmptyInput ==
  \A p \in DOMAIN g :
    (SizedRun(p) /\ Len(g[p].chunkInput) = 0) =>
      /\ g[p].iterations <= 1
      /\ g[p].chunkCalls \in {<< >>, << << >> >>}
      /\ g[p].execFuncCalls = 0 /\ g[p].dbExecCalls = 0 /\ g[p].nowCalls = 0
      /\ g[p].pc # "panicked"
      /\ g[p].pc = "chunkDone" =>
           /\ g[p].iterations = 1
           /\ g[p].chunkResults = <<"">>
           /\ g[p].chunkReturn = << >>

\* A call of BulkExecChunk with a chunk size of at least one has begun.
C26_Begun ==
  \E p \in DOMAIN g :
    SizedRun(p) /\ g[p].pc = "chunkLoop" /\ g[p].iterations = 0

\* BulkExecChunk has returned, or a panic has ended it.
C26_Ended == \E p \in DOMAIN g : g[p].chunked /\ g[p].pc \in {"chunkDone", "panicked"}

\* C26: for chunkSize >= 1 BulkExecChunk terminates on every input: each
\* iteration with more than chunkSize rows left takes exactly chunkSize rows
\* off, the iteration with at most chunkSize rows left leaves none and the
\* loop is left after it, the empty input makes exactly one iteration whose
\* BulkExec call does nothing and nil is returned, and every call that has
\* begun ends, by its return or by a panic.
C26_ChunkLoopTerminates ==
  /\ [][C26_Iteration]_vars
  /\ [](C26_Exit /\ C26_EmptyInput)
  /\ (C26_Begun ~> C26_Ended)

\* C26 witness: BulkExecChunk has returned from seven rows at size 3 after
\* three iterations, with no row left.
C26_Witness ==
  \E p \in DOMAIN g :
    /\ g[p].pc = "chunkDone"
    /\ Len(g[p].chunkInput) = 7 /\ g[p].chunkSize = 3
    /\ g[p].iterations = 3
    /\ g[p].remaining = << >>
    /\ g[p].chunkReturn = << >>

====
